---------------------------- MODULE Spec2Model ----------------------------
(***************************************************************************)
(* A model of lsst.sims.seeingModel: SeeingData (the periodic nearest-     *)
(* sample lookup over the recorded seeing series), SeeingModel (the FWHM   *)
(* scaling model) and SeeingSim (their composition).                       *)
(*                                                                         *)
(* Times are exact rationals with denominator 2, written as integer        *)
(* numbers of half-seconds ("ticks"): s_date is an INTEGER column, and     *)
(* delta_time may be a float, so a query can fall on the midpoint of two   *)
(* samples.  Every operation of __call__ on times (+, -, %, <) commutes    *)
(* with that scaling.  Seeing values are opaque payloads, written as the   *)
(* strings of their decimal notation.                                      *)
(***************************************************************************)
EXTENDS Integers, Sequences, FiniteSets, TLC

VARIABLES
    source,          \* rows of table Seeing of seeing_db: <<s_date, seeing>>, in rowid order
    offset,          \* SeeingData.offset (ticks)
    attrs,           \* names of the attributes set on the SeeingData instance
    nones,           \* names of the attributes of it whose value is None
    seeing_dates,    \* SeeingData.seeing_dates (ticks); <<>> while None
    seeing_values,   \* SeeingData.seeing_values; <<>> while None
    min_time,        \* SeeingData.min_time
    max_time,        \* SeeingData.max_time
    time_range,      \* SeeingData.time_range
    no_photUtils,    \* seeingModel.no_photUtils: lsst.sims.photUtils failed to import
    fdir,            \* whether $LSST_THROUGHPUTS_DEFAULT is defined
    sim,             \* the SeeingSim: "none" (not constructed), "ok", "failed"
    filter_list,     \* SeeingSim.filter_list, the same object as seeing_model.filter_list
    filter_effwavelens,     \* SeeingModel.filter_effwavelens (an ndarray)
    raw_seeing_wavelength,  \* SeeingModel.raw_seeing_wavelength
    fwhm_system_zenith,     \* SeeingModel.fwhm_system_zenith
    result           \* outcome of the last call: what was called, raised, returned

dataVars == <<source, offset, attrs, nones, seeing_dates, seeing_values,
              min_time, max_time, time_range>>
envVars == <<no_photUtils, fdir>>
modelVars == <<filter_list, filter_effwavelens, raw_seeing_wavelength,
               fwhm_system_zenith>>
vars == <<source, offset, attrs, nones, seeing_dates, seeing_values,
          min_time, max_time, time_range, no_photUtils, fdir, sim,
          filter_list, filter_effwavelens, raw_seeing_wavelength,
          fwhm_system_zenith, result>>

-----------------------------------------------------------------------------
(* Bounds of the model. *)
MaxRows == 3
MaxDate == 2
MaxDelta == 3
MaxK == 2

Tick(seconds) == 2 * seconds

\* s_date values (seconds) of the rows the bounded sources hold
Dates == 0 .. MaxDate
\* seeing values of the rows: two finite ones and a non-finite one
SeeingValues == {"0.3", "0.5", "inf"}
IsFinite(v) == v \notin {"inf", "-inf", "nan"}

\* the table written by test_alternate_db: (1, 9997, 0.5), (2, 10342, 0.3)
AltDb == << <<9997, "0.5">>, <<10342, "0.3">> >>

\* The bounded tables are filled chronologically, as seeing.db and the
\* table of test_alternate_db are: read_data orders the rows itself, so the
\* rowid order of rows of different s_date does not reach a lookup.
SeqsUpTo(S, n) == UNION {[1 .. k -> S] : k \in 0 .. n}
Chronological(rows) ==
    \A i \in 1 .. Len(rows) - 1 : rows[i][1] <= rows[i + 1][1]
Sources ==
    {rows \in SeqsUpTo(Dates \X SeeingValues, MaxRows) : Chronological(rows)}
        \cup {AltDb}

\* time_handler.time_since_given_datetime(Jan 1st, reverse=True), in seconds
Offsets == {0, 172}
\* delta_time of a call, in ticks
DeltaTimes == -MaxDelta .. MaxDelta

-----------------------------------------------------------------------------
(* Python and numpy helpers. *)

\* seq[i] with Python's indexing: -len..-1 count from the end.
PyInRange(seq, i) == -Len(seq) <= i /\ i < Len(seq)
PyIndex(seq, i) == IF i >= 0 THEN seq[i + 1] ELSE seq[Len(seq) + i + 1]

\* numpy.searchsorted(a, v), side='left': the number of elements < v; a NaN
\* sorts after every number.
searchsorted(a, v) ==
    IF v.nan THEN Len(a)
    ELSE Cardinality({i \in 1 .. Len(a) : a[i] < v.t})

\* cur.fetchall() of "select ... order by s_date" followed by argsort: the
\* rows in non-decreasing s_date order; rows of equal s_date in any order.
IsSortedBy(rows, p) ==
    \A i \in 1 .. Len(rows) - 1 : rows[p[i]][1] <= rows[p[i + 1]][1]
\* (first, the rows left in the order of the table)
argsort_Unsorted(rows) == {[i \in 1 .. Len(rows) |-> i]}
argsort(rows) ==
    {p \in [1 .. Len(rows) -> 1 .. Len(rows)] :
        /\ \A i, j \in 1 .. Len(rows) : p[i] = p[j] => i = j
        /\ IsSortedBy(rows, p)}

-----------------------------------------------------------------------------
(* SeeingData *)

\* SeeingData.__init__: seeing_dates and seeing_values are None, offset is
\* set; min_time, max_time and time_range are not attributes yet.
SeeingData_init(src, off) ==
    /\ source = src
    /\ offset = Tick(off)
    /\ attrs = {"seeing_db", "offset", "seeing_dates", "seeing_values"}
    /\ nones = {"seeing_dates", "seeing_values"}
    /\ seeing_dates = <<>>
    /\ seeing_values = <<>>
    /\ min_time = 0
    /\ max_time = 0
    /\ time_range = 0

\* The outcome of a call: the method, its arguments, the exception it
\* raised ("none": it returned) and what it returned (<<>>: nothing).
Outcome(op, args, exc, ret) == [op |-> op, args |-> args, exc |-> exc, ret |-> ret]
NoResult == Outcome("none", <<>>, "none", <<>>)

\* No SeeingSim and no SeeingModel exist.
NoSim ==
    /\ sim = "none"
    /\ filter_list = <<>>
    /\ filter_effwavelens = <<>>
    /\ raw_seeing_wavelength = "none"
    /\ fwhm_system_zenith = [sqrt |-> 0]

\* A SeeingData has been constructed on some seeing_db and start date; it
\* reads neither no_photUtils nor the environment.
Init ==
    /\ \E src \in Sources, off \in Offsets : SeeingData_init(src, off)
    /\ no_photUtils = TRUE
    /\ fdir = FALSE
    /\ NoSim
    /\ result = NoResult

\* FoldDate without the wrap-around: the modulo forgotten.
FoldDate_NoWrap(delta_time) ==
    IF time_range = 0 THEN [nan |-> TRUE, t |-> 0]
    ELSE [nan |-> FALSE, t |-> (delta_time + offset) + min_time]

\* date = delta_time % self.time_range + self.min_time; a float modulo a
\* numpy float64 zero is NaN (a RuntimeWarning, no exception).
FoldDate(delta_time) ==
    IF time_range = 0 THEN [nan |-> TRUE, t |-> 0]
    ELSE [nan |-> FALSE, t |-> ((delta_time + offset) % time_range) + min_time]

\* ChooseIdx with <= for <: a tie goes to the left sample.
ChooseIdx_TieLeft(date, idx) ==
    LET left == PyIndex(seeing_dates, idx - 1)
        right == PyIndex(seeing_dates, idx)
    IN IF date.t - left <= right - date.t THEN idx - 1 ELSE idx

\* ChooseIdx without the step to the left: always the right candidate.
ChooseIdx_NoStep(date, idx) == idx

\* if date - left < right - date: idx -= 1
ChooseIdx(date, idx) ==
    LET left == PyIndex(seeing_dates, idx - 1)
        right == PyIndex(seeing_dates, idx)
    IN IF date.t - left < right - date.t THEN idx - 1 ELSE idx

\* SeeingData.__call__(delta_time): what it raises and returns.
Lookup(delta_time) ==
    IF "time_range" \notin attrs
    THEN [exc |-> "AttributeError", ret |-> <<>>]
    ELSE LET date == FoldDate(delta_time)
             idx == searchsorted(seeing_dates, date)
         IN IF ~PyInRange(seeing_dates, idx - 1) \/ ~PyInRange(seeing_dates, idx)
            THEN [exc |-> "IndexError", ret |-> <<>>]
            ELSE [exc |-> "none",
                  ret |-> <<PyIndex(seeing_values, ChooseIdx(date, idx))>>]

\* (first, a lookup that adds delta_time to self.offset, not to its local)
SeeingData_call_AddsToOffset(delta_time) ==
    /\ sim \in {"none", "ok"}
    /\ result' = Outcome("__call__", [delta_time |-> delta_time],
                          Lookup(delta_time).exc, Lookup(delta_time).ret)
    /\ offset' = offset + delta_time
    /\ UNCHANGED <<source, attrs, nones, seeing_dates, seeing_values,
                   min_time, max_time, time_range, envVars, sim, modelVars>>
\* on a SeeingData of its own, or on the seeing_data of a SeeingSim
SeeingData_call(delta_time) ==
    /\ sim \in {"none", "ok"}
    /\ result' = Outcome("__call__", [delta_time |-> delta_time],
                          Lookup(delta_time).exc, Lookup(delta_time).ret)
    /\ UNCHANGED <<dataVars, envVars, sim, modelVars>>

\* SeeingData.read_data() with the fetched rows in the order p: the arrays
\* are assigned inside the with block; self.seeing_dates[0] of an empty
\* array raises IndexError after that.
read_data(p) ==
    LET dates == [i \in 1 .. Len(source) |-> Tick(source[p[i]][1])]
        values == [i \in 1 .. Len(source) |-> source[p[i]][2]]
    IN /\ seeing_dates' = dates
       /\ seeing_values' = values
       /\ nones' = {}
       /\ IF Len(source) = 0
          THEN UNCHANGED <<attrs, min_time, max_time, time_range>>
          ELSE /\ attrs' = attrs \cup {"min_time", "max_time", "time_range"}
               /\ min_time' = dates[1]
               /\ max_time' = dates[Len(dates)]
               /\ time_range' = dates[Len(dates)] - dates[1]
       /\ UNCHANGED <<source, offset>>
read_data_exc == IF Len(source) = 0 THEN "IndexError" ELSE "none"

SeeingData_read_data ==
    /\ sim = "none"
    /\ \E p \in argsort(source) : read_data(p)
    /\ result' = Outcome("read_data", <<>>, read_data_exc, <<>>)
    /\ UNCHANGED <<envVars, sim, modelVars>>

Next ==
    \/ SeeingData_read_data
    \/ \E delta_time \in DeltaTimes : SeeingData_call(delta_time)

Spec == Init /\ [][Next]_vars

\* The Seeing tables with their rows in any order, and read_data on them.
LoadSources == SeqsUpTo(Dates \X SeeingValues, MaxRows)
InitLoad ==
    /\ \E src \in LoadSources, off \in Offsets : SeeingData_init(src, off)
    /\ no_photUtils = TRUE
    /\ fdir = FALSE
    /\ NoSim
    /\ result = NoResult
NextLoad == SeeingData_read_data
SpecLoad == InitLoad /\ [][NextLoad]_vars

-----------------------------------------------------------------------------
(* SeeingModel *)

\* Wavelengths (nm) are opaque payloads, written in decimal notation.
\* seeingModel.py, SeeingModel.__init__ without photUtils: filter_dict read
\* in the order of filter_list.
DefaultFilterList == <<"u", "g", "r", "i", "z", "y">>
filter_dict ==
    [u |-> "367.0", g |-> "482.5", r |-> "622.2",
     i |-> "754.5", z |-> "869.1", y |-> "971.0"]
\* What Bandpass.calcEffWavelen()[1] of lsst.sims.photUtils gives for
\* total_<f>.dat: the values recorded for throughputs 1.1.
calcEffWavelen ==
    [u |-> "367.06988658", g |-> "482.68517118", r |-> "622.32403587",
     i |-> "754.59752265", z |-> "869.09018708", y |-> "971.02780848"]

\* set_fwhm_zenith_system: sqrt(telescope^2 + optical^2 + camera^2), kept
\* as the radicand, in units of 1e-4 arcsec^2 (the terms in 1e-2 arcsec).
set_fwhm_zenith_system(seeing) ==
    [sqrt |-> seeing[1] * seeing[1] + seeing[2] * seeing[2] + seeing[3] * seeing[3]]

\* SeeingModel.__init__(filter_effwavelens=wavelens): the exception raised
\* and the filter_list and filter_effwavelens it leaves (filter_list stays
\* unset, <<>>, when the wavelengths are given).
NoWavelens == [none |-> TRUE, a |-> <<>>]
SeeingModel_init(wavelens) ==
    IF wavelens.none
    THEN IF no_photUtils
         THEN [exc |-> "none", filter_list |-> DefaultFilterList,
               filter_effwavelens |->
                   [i \in 1 .. Len(DefaultFilterList) |-> filter_dict[DefaultFilterList[i]]]]
         ELSE IF ~fdir
              THEN [exc |-> "ValueError", filter_list |-> DefaultFilterList,
                    filter_effwavelens |-> <<>>]
              ELSE [exc |-> "none", filter_list |-> DefaultFilterList,
                    filter_effwavelens |->
                        [i \in 1 .. Len(DefaultFilterList) |->
                            calcEffWavelen[DefaultFilterList[i]]]]
    ELSE [exc |-> "none", filter_list |-> <<>>, filter_effwavelens |-> wavelens.a]

\* One element of the result: the FWHM computed from fwhm_500, the
\* system term, one filter's wavelength and one airmass.
\*   fwhm_eff = 1.16 * sqrt((fwhm_system_zenith * X^0.6)^2
\*              + 1.04 * (fwhm_500 * (raw_seeing_wavelength / wavelen)^0.3 * X^0.6)^2)
FwhmEff(fwhm_500, wavelen, X) ==
    [q |-> "fwhm_eff", fwhm_500 |-> fwhm_500, system |-> fwhm_system_zenith,
     raw |-> raw_seeing_wavelength, wavelen |-> wavelen, airmass |-> X]
\* fwhmEff_to_fwhmGeom: 0.822 * fwhm_eff + 0.052, elementwise
fwhmEff_to_fwhmGeom(cell) == [cell EXCEPT !.q = "fwhm_geom"]

\* Outer with its arguments exchanged: <airmass><filter>.
Outer_AirmassMajor(fwhm_500, X) ==
    [a \in 1 .. Len(X) |->
        [f \in 1 .. Len(filter_effwavelens) |->
            FwhmEff(fwhm_500, filter_effwavelens[f], X[a])]]

\* np.outer(wavelen_correction, airmass_correction): <filter><airmass>
Outer(fwhm_500, X) ==
    [f \in 1 .. Len(filter_effwavelens) |->
        [a \in 1 .. Len(X) |-> FwhmEff(fwhm_500, filter_effwavelens[f], X[a])]]
\* wavelen_correction * airmass_correction of two 1-d arrays: numpy
\* broadcasting, elementwise, an axis of length 1 stretched.
Broadcastable(X) ==
    Len(X) = Len(filter_effwavelens) \/ Len(X) = 1 \/ Len(filter_effwavelens) = 1
Elementwise(fwhm_500, X) ==
    LET F == Len(filter_effwavelens)
        N == Len(X)
        n == IF F >= N THEN F ELSE N
    IN [k \in 1 .. n |->
           FwhmEff(fwhm_500, filter_effwavelens[IF F = 1 THEN 1 ELSE k],
                   X[IF N = 1 THEN 1 ELSE k])]

\* An airmass argument: a float, a numpy.ndarray or a plain list.
Float(x) == [type |-> "float", v |-> <<x>>]
Ndarray(xs) == [type |-> "ndarray", v |-> xs]
List(xs) == [type |-> "list", v |-> xs]

\* SeeingModel.seeing_at_airmass(fwhm_500, airmass): the exception raised
\* and the (fwhm_eff, fwhm_geom) returned, each with its shape.
\* self.fwhmEff_to_fwhmGeom(fwhm_eff) of a 1-d and of a 2-d array
Geom1(array) == [k \in 1 .. Len(array) |-> fwhmEff_to_fwhmGeom(array[k])]
Geom2(array) == [f \in 1 .. Len(array) |-> Geom1(array[f])]
seeing_at_airmass(fwhm_500, airmass) ==
    IF airmass.type = "ndarray"
    THEN LET fwhm_eff == Outer(fwhm_500, airmass.v)
         IN [exc |-> "none",
             shape |-> <<Len(filter_effwavelens), Len(airmass.v)>>,
             fwhm_eff |-> fwhm_eff,
             fwhm_geom |-> Geom2(fwhm_eff)]
    ELSE IF ~Broadcastable(airmass.v)
         THEN [exc |-> "ValueError", shape |-> <<>>,
               fwhm_eff |-> <<>>, fwhm_geom |-> <<>>]
         ELSE LET fwhm_eff == Elementwise(fwhm_500, airmass.v)
              IN [exc |-> "none", shape |-> <<Len(fwhm_eff)>>,
                  fwhm_eff |-> fwhm_eff,
                  fwhm_geom |-> Geom1(fwhm_eff)]


-----------------------------------------------------------------------------
(* SeeingSim *)

MaxAirmass == 3
MaxSimDelta == 2

\* np.arange(1.0, ..., 0.2) of n elements, in tenths: 1.0, 1.2, 1.4, ...
arange(n) == [k \in 1 .. n |-> 10 + 2 * (k - 1)]
Airmasses ==
    {Float(12)}
        \cup {Ndarray(arange(n)) : n \in 1 .. MaxAirmass}
        \cup {List(arange(n)) : n \in 1 .. MaxAirmass}

\* The seeing_db files a SeeingSim is constructed on: an empty table, a
\* table of one row, the table of test_alternate_db, a table of three rows.
SimSources ==
    {<<>>, << <<1, "0.5">> >>, AltDb,
     << <<0, "0.3">>, <<1, "0.5">>, <<3, "0.3">> >>}

\* The filter_effwavelens and filter_list arguments of SeeingSim: those of
\* test_seeingSim.py and test_seeingModel.py, a single filter, and a list
\* naming a filter twice.
Wavelens ==
    {NoWavelens,
     [none |-> FALSE, a |-> <<"500.0">>],
     [none |-> FALSE, a |-> <<"500.0", "1000.0">>],
     [none |-> FALSE, a |-> <<"360.0", "485.0", "620.0">>]}
NoFilterList == [none |-> TRUE, a |-> <<>>]
FilterLists ==
    {NoFilterList,
     [none |-> FALSE, a |-> <<"r">>],
     [none |-> FALSE, a |-> <<"u", "g">>],
     [none |-> FALSE, a |-> <<"g", "g">>],
     [none |-> FALSE, a |-> <<"u", "g", "r">>]}
\* telescope_seeing, optical_design_seeing, camera_seeing in 1e-2 arcsec:
\* the defaults, and no system contribution
SystemSeeings == {<<25, 8, 30>>, <<0, 0, 0>>}
\* filter names asked of calculate_seeing; "x" is in no filter list
FilterNames == {"u", "g", "x"}
\* delta_time of the calls on a SeeingSim, in ticks
SimDeltaTimes == 0 .. MaxSimDelta

\* list.index(name): the first position holding name (from 0), when there is one
Contains(list, name) == \E k \in 1 .. Len(list) : list[k] = name
\* (the same taking the last position holding name)
index_Last(list, name) ==
    (CHOOSE k \in 1 .. Len(list) :
        list[k] = name /\ \A j \in k + 1 .. Len(list) : list[j] # name) - 1
index(list, name) ==
    (CHOOSE k \in 1 .. Len(list) :
        list[k] = name /\ \A j \in 1 .. k - 1 : list[j] # name) - 1

\* SeeingSim.__init__: SeeingData(...), read_data(), SeeingModel(...), then
\* the checks of filter_list against filter_effwavelens.  The exception the
\* part after read_data raises:
\* (first, the same without the comparison of the two lengths)
SeeingSim_init_exc_NoLengthCheck(wavelens, filters) ==
    IF SeeingModel_init(wavelens).exc # "none" THEN SeeingModel_init(wavelens).exc
    ELSE IF ~wavelens.none /\ filters.none THEN "ValueError"
    ELSE "none"
SeeingSim_init_exc(wavelens, filters) ==
    IF SeeingModel_init(wavelens).exc # "none" THEN SeeingModel_init(wavelens).exc
    ELSE IF ~wavelens.none /\ filters.none THEN "ValueError"
    ELSE IF ~wavelens.none /\ Len(filters.a) # Len(wavelens.a) THEN "ValueError"
    ELSE "none"

SeeingSim_init(seeing, raw, wavelens, filters) ==
    /\ sim = "none"
    /\ \E p \in argsort(source) : read_data(p)
    /\ LET exc == IF read_data_exc # "none" THEN read_data_exc
                  ELSE SeeingSim_init_exc(wavelens, filters)
           model == SeeingModel_init(wavelens)
       IN /\ result' = Outcome("SeeingSim", [filter_effwavelens |-> wavelens,
                                             filter_list |-> filters], exc, <<>>)
          /\ IF exc # "none"
             THEN /\ sim' = "failed"
                  /\ UNCHANGED modelVars
             ELSE /\ sim' = "ok"
                  /\ filter_list' = IF wavelens.none THEN model.filter_list
                                    ELSE filters.a
                  /\ filter_effwavelens' = model.filter_effwavelens
                  /\ raw_seeing_wavelength' = raw
                  /\ fwhm_system_zenith' = set_fwhm_zenith_system(seeing)
    /\ UNCHANGED envVars

\* SeeingData.fwhm500_at_time(delta_time), which SeeingSim calls: the
\* lookup of the series at delta_time.
fwhm500_at_time(delta_time) == Lookup(delta_time)

\* SeeingSim.calculate_seeing(delta_time, filter_name, airmass): the
\* exception raised and the (fwhm_500, fwhm_geom, fwhm_eff) returned.
calculate_seeing(delta_time, filter_name, airmass) ==
    LET looked == fwhm500_at_time(delta_time)
    IN IF looked.exc # "none" THEN [exc |-> looked.exc, ret |-> <<>>]
       ELSE LET fwhm_500 == looked.ret[1]
                seeing == seeing_at_airmass(fwhm_500, airmass)
            IN IF seeing.exc # "none" THEN [exc |-> seeing.exc, ret |-> <<>>]
               ELSE IF ~Contains(filter_list, filter_name)
                    THEN [exc |-> "ValueError", ret |-> <<>>]
                    ELSE LET idx == index(filter_list, filter_name)
                         IN IF ~PyInRange(seeing.fwhm_eff, idx)
                            THEN [exc |-> "IndexError", ret |-> <<>>]
                            ELSE [exc |-> "none",
                                  ret |-> <<fwhm_500,
                                            PyIndex(seeing.fwhm_geom, idx),
                                            PyIndex(seeing.fwhm_eff, idx)>>]

SeeingSim_calculate_seeing(delta_time, filter_name, airmass) ==
    /\ sim = "ok"
    /\ result' = Outcome("calculate_seeing",
                         [delta_time |-> delta_time, filter_name |-> filter_name,
                          airmass |-> airmass],
                         calculate_seeing(delta_time, filter_name, airmass).exc,
                         calculate_seeing(delta_time, filter_name, airmass).ret)
    /\ UNCHANGED <<dataVars, envVars, sim, modelVars>>

\* SeeingSim.get_fwhm500(delta_time): the exception raised and the fwhm_500
\* returned.
get_fwhm500(delta_time) == fwhm500_at_time(delta_time)

SeeingSim_get_fwhm500(delta_time) ==
    /\ sim = "ok"
    /\ result' = Outcome("get_fwhm500", [delta_time |-> delta_time],
                         get_fwhm500(delta_time).exc, get_fwhm500(delta_time).ret)
    /\ UNCHANGED <<dataVars, envVars, sim, modelVars>>

\* SeeingSim.get_seeing(delta_time, airmass): the exception raised and the
\* (fwhm_500, fwhm_geom, fwhm_eff) returned, for all filters.
get_seeing(delta_time, airmass) ==
    LET looked == fwhm500_at_time(delta_time)
    IN IF looked.exc # "none" THEN [exc |-> looked.exc, ret |-> <<>>]
       ELSE LET fwhm_500 == looked.ret[1]
                seeing == seeing_at_airmass(fwhm_500, airmass)
            IN IF seeing.exc # "none" THEN [exc |-> seeing.exc, ret |-> <<>>]
               ELSE [exc |-> "none",
                     ret |-> <<fwhm_500, seeing.fwhm_geom, seeing.fwhm_eff>>]

SeeingSim_get_seeing(delta_time, airmass) ==
    /\ sim = "ok"
    /\ result' = Outcome("get_seeing",
                         [delta_time |-> delta_time, airmass |-> airmass],
                         get_seeing(delta_time, airmass).exc,
                         get_seeing(delta_time, airmass).ret)
    /\ UNCHANGED <<dataVars, envVars, sim, modelVars>>

\* seeing_model.seeing_at_airmass(fwhm_500, airmass) on the model of the
\* SeeingSim, or on a SeeingModel constructed on its own
SeeingModel_seeing_at_airmass(fwhm_500, airmass) ==
    /\ sim \in {"ok", "model"}
    /\ LET seeing == seeing_at_airmass(fwhm_500, airmass)
       IN result' = Outcome("seeing_at_airmass",
                            [fwhm_500 |-> fwhm_500, airmass |-> airmass],
                            seeing.exc,
                            IF seeing.exc = "none"
                            THEN <<[shape |-> seeing.shape,
                                    fwhm_eff |-> seeing.fwhm_eff,
                                    fwhm_geom |-> seeing.fwhm_geom]>>
                            ELSE <<>>)
    /\ UNCHANGED <<dataVars, envVars, sim, modelVars>>

\* Nothing is constructed yet: a seeing_db, a start date and an environment.
InitSim ==
    /\ \E src \in SimSources, off \in Offsets : SeeingData_init(src, off)
    /\ no_photUtils \in BOOLEAN
    /\ fdir \in BOOLEAN
    /\ NoSim
    /\ result = NoResult

NextSim ==
    \/ \E seeing \in SystemSeeings, wavelens \in Wavelens, filters \in FilterLists :
           SeeingSim_init(seeing, "500", wavelens, filters)
    \/ \E delta_time \in SimDeltaTimes, filter_name \in FilterNames, airmass \in Airmasses :
           SeeingSim_calculate_seeing(delta_time, filter_name, airmass)
    \/ \E fwhm_500 \in {"0.3", "0.5"}, airmass \in Airmasses :
           SeeingModel_seeing_at_airmass(fwhm_500, airmass)
    \/ \E delta_time \in SimDeltaTimes : SeeingSim_get_fwhm500(delta_time)
    \/ \E delta_time \in SimDeltaTimes : SeeingData_call(delta_time)
    \/ \E delta_time \in SimDeltaTimes, airmass \in Airmasses :
           SeeingSim_get_seeing(delta_time, airmass)

SpecSim == InitSim /\ [][NextSim]_vars

-----------------------------------------------------------------------------
(* SeeingModel constructed on its own *)

\* raw_seeing_wavelength and filter_effwavelens arguments: those above, and
\* wavelengths that are zero or negative
RawWavelengths == {"500", "0", "-500"}
ModelWavelens ==
    Wavelens \cup {[none |-> FALSE, a |-> <<"0.0">>],
                   [none |-> FALSE, a |-> <<"500.0", "-1.0">>]}

\* SeeingModel(telescope_seeing, optical_design_seeing, camera_seeing,
\*             raw_seeing_wavelength, filter_effwavelens)
SeeingModel_new(seeing, raw, wavelens) ==
    /\ sim = "none"
    /\ LET model == SeeingModel_init(wavelens)
       IN /\ result' = Outcome("SeeingModel",
                               [raw_seeing_wavelength |-> raw,
                                filter_effwavelens |-> wavelens],
                               model.exc, <<>>)
          /\ IF model.exc # "none"
             THEN /\ sim' = "failed"
                  /\ UNCHANGED modelVars
             ELSE /\ sim' = "model"
                  /\ filter_list' = model.filter_list
                  /\ filter_effwavelens' = model.filter_effwavelens
                  /\ raw_seeing_wavelength' = raw
                  /\ fwhm_system_zenith' = set_fwhm_zenith_system(seeing)
    /\ UNCHANGED <<dataVars, envVars>>

InitModel ==
    /\ SeeingData_init(<<>>, 0)
    /\ no_photUtils \in BOOLEAN
    /\ fdir \in BOOLEAN
    /\ NoSim
    /\ result = NoResult

NextModel ==
    \/ \E seeing \in SystemSeeings, raw \in RawWavelengths, wavelens \in ModelWavelens :
           SeeingModel_new(seeing, raw, wavelens)
    \/ \E fwhm_500 \in {"0.3", "0.5"}, airmass \in Airmasses :
           SeeingModel_seeing_at_airmass(fwhm_500, airmass)

SpecModel == InitModel /\ [][NextModel]_vars

-----------------------------------------------------------------------------
(* get_effwavelens of utils.py and of seeingModelConfig.py *)

MaxFilters == 3

DEFAULT_THROUGHPUTS_VERSION == "1.1"
DEFAULT_FILTER_LIST == <<"u", "g", "r", "i", "z", "y">>
DEFAULT_WAVELENGTHS ==
    <<"367.06988658", "482.68517118", "622.32403587",
      "754.59752265", "869.09018708", "971.02780848">>

\* The filter_list arguments: the default, and every list of up to
\* MaxFilters different filters, in any order.
EffFilterLists ==
    {DEFAULT_FILTER_LIST} \cup
    {fl \in SeqsUpTo({"u", "g", "r", "i", "z", "y"}, MaxFilters) :
        \A j, k \in 1 .. Len(fl) : fl[j] = fl[k] => j = k}

\* The loop over filter_list of both functions: the exception raised and
\* the effwavelens built.
\*   for f in filter_list:
\*       idx = filter_list.index(f)
\*       effwavelens.append(DEFAULT_WAVELENGTHS[idx])
effwavelens(filters) ==
    IF no_photUtils \/ ~fdir
    THEN IF \E k \in 1 .. Len(filters) :
                ~PyInRange(DEFAULT_WAVELENGTHS, index(filters, filters[k]))
         THEN [exc |-> "IndexError", effwavelens |-> <<>>]
         ELSE [exc |-> "none",
               effwavelens |->
                   [k \in 1 .. Len(filters) |->
                       PyIndex(DEFAULT_WAVELENGTHS, index(filters, filters[k]))]]
    ELSE [exc |-> "none",
          effwavelens |-> [k \in 1 .. Len(filters) |-> calcEffWavelen[filters[k]]]]

\* utils.get_effwavelens(filter_list): returns
\* (photUtilsVersion, throughputsVersion, effwavelens)
utils_get_effwavelens(filters) ==
    /\ sim = "none"
    /\ LET e == effwavelens(filters)
           versions == IF no_photUtils \/ ~fdir
                       THEN <<"none", DEFAULT_THROUGHPUTS_VERSION>>
                       ELSE <<"photUtils_version.__version__", "version_info">>
       IN result' = Outcome("utils.get_effwavelens", [filter_list |-> filters],
                            e.exc,
                            IF e.exc = "none" THEN versions \o <<e.effwavelens>>
                            ELSE <<>>)
    /\ UNCHANGED <<dataVars, envVars, sim, modelVars>>

\* seeingModelConfig.get_effwavelens(filter_list): returns effwavelens
config_get_effwavelens(filters) ==
    /\ sim = "none"
    /\ LET e == effwavelens(filters)
       IN result' = Outcome("seeingModelConfig.get_effwavelens",
                            [filter_list |-> filters], e.exc,
                            IF e.exc = "none" THEN <<e.effwavelens>> ELSE <<>>)
    /\ UNCHANGED <<dataVars, envVars, sim, modelVars>>

NextWavelens ==
    \/ \E filters \in EffFilterLists : utils_get_effwavelens(filters)
    \/ \E filters \in EffFilterLists : config_get_effwavelens(filters)

\* Nothing constructed; sims_photUtils importable or not, and
\* $LSST_THROUGHPUTS_DEFAULT set or not.
SpecWavelens == InitModel /\ [][NextWavelens]_vars

-----------------------------------------------------------------------------
(* The arithmetic of Python floats (IEEE-754 binary64, round to nearest,   *)
(* ties to even), for non-negative normal numbers: a float is m * 2^e with *)
(* m a natural number of exactly Precision bits (m = 0, e = 0 for zero);   *)
(* naturals are little-endian sequences of limbs below LimbBase, without   *)
(* leading zero limbs.                                                     *)

LimbBits == 13
LimbBase == 8192
Precision == 53

Pow2(k) == IF k = 0 THEN 1 ELSE 2 ^ k
Limb(a, i) == IF i >= 1 /\ i <= Len(a) THEN a[i] ELSE 0
RECURSIVE Norm(_)
Norm(a) ==
    IF Len(a) = 0 THEN <<>>
    ELSE IF a[Len(a)] = 0 THEN Norm(SubSeq(a, 1, Len(a) - 1))
    ELSE SubSeq(a, 1, Len(a))
RECURSIVE NatOf(_)
NatOf(n) == IF n = 0 THEN <<>> ELSE <<n % LimbBase>> \o NatOf(n \div LimbBase)

NatAdd(a, b) ==
    LET n == (IF Len(a) >= Len(b) THEN Len(a) ELSE Len(b)) + 1
        carry[i \in 0 .. n] ==
            IF i = 0 THEN 0
            ELSE (Limb(a, i) + Limb(b, i) + carry[i - 1]) \div LimbBase
    IN Norm([i \in 1 .. n |-> (Limb(a, i) + Limb(b, i) + carry[i - 1]) % LimbBase])
\* a - b, for a >= b
NatSub(a, b) ==
    LET borrow[i \in 0 .. Len(a)] ==
            IF i = 0 THEN 0
            ELSE IF Limb(a, i) - Limb(b, i) - borrow[i - 1] < 0 THEN 1 ELSE 0
    IN Norm([i \in 1 .. Len(a) |->
                (Limb(a, i) - Limb(b, i) - borrow[i - 1]) % LimbBase])
NatLess(a, b) ==
    LET D == {i \in 1 .. Len(a) + Len(b) : Limb(a, i) # Limb(b, i)}
    IN D # {} /\ LET i == CHOOSE j \in D : \A k \in D : k <= j
                 IN Limb(a, i) < Limb(b, i)
NatMul(a, b) ==
    LET n == Len(a) + Len(b)
        column[k \in 1 .. n, i \in 0 .. Len(a)] ==
            IF i = 0 THEN 0
            ELSE column[k, i - 1] + a[i] * Limb(b, k + 1 - i)
        carry[k \in 0 .. n] ==
            IF k = 0 THEN 0
            ELSE (column[k, Len(a)] + carry[k - 1]) \div LimbBase
    IN Norm([k \in 1 .. n |-> (column[k, Len(a)] + carry[k - 1]) % LimbBase])

\* the number of bits of a
BitLen(a) ==
    IF Len(a) = 0 THEN 0
    ELSE LimbBits * (Len(a) - 1)
             + (CHOOSE k \in 1 .. LimbBits :
                   Pow2(k - 1) <= a[Len(a)] /\ a[Len(a)] < Pow2(k))
Bit(a, k) == (Limb(a, k \div LimbBits + 1) \div Pow2(k % LimbBits)) % 2
\* a * 2^k and floor(a / 2^k)
ShiftLeft(a, k) ==
    IF Len(a) = 0 THEN a
    ELSE [i \in 1 .. k \div LimbBits |-> 0] \o NatMul(a, <<Pow2(k % LimbBits)>>)
ShiftRight(a, k) ==
    LET q == k \div LimbBits
        r == k % LimbBits
    IN Norm([i \in 1 .. Len(a) - q |->
                (Limb(a, i + q) \div Pow2(r))
                    + (Limb(a, i + q + 1) % Pow2(r)) * Pow2(LimbBits - r)])

\* The float nearest to (n + d) * 2^e, 0 <= d < 1 and d > 0 iff inexact:
\* round to nearest, ties to even.
Zero == [m |-> <<>>, e |-> 0]
RoundNat(n, e, inexact) ==
    LET k == BitLen(n) - Precision
    IN IF Len(n) = 0 THEN Zero
       ELSE IF k <= 0 THEN [m |-> ShiftLeft(n, -k), e |-> e + k]
       ELSE LET q == ShiftRight(n, k)
                half == Bit(n, k - 1) = 1
                sticky == inexact \/ ShiftLeft(ShiftRight(n, k - 1), k - 1) # n
                up == half /\ (sticky \/ Bit(q, 0) = 1)
                m == IF up THEN NatAdd(q, <<1>>) ELSE q
            IN IF BitLen(m) > Precision
               THEN [m |-> ShiftRight(m, 1), e |-> e + k + 1]
               ELSE [m |-> m, e |-> e + k]

FloatOf(n) == RoundNat(NatOf(n), 0, FALSE)
FMul(a, b) == RoundNat(NatMul(a.m, b.m), a.e + b.e, FALSE)
\* a.m and b.m brought to the smaller exponent
Aligned(a, b) ==
    LET e == IF a.e <= b.e THEN a.e ELSE b.e
    IN [a |-> ShiftLeft(a.m, a.e - e), b |-> ShiftLeft(b.m, b.e - e), e |-> e]
FAdd(a, b) ==
    IF Len(a.m) = 0 THEN b
    ELSE IF Len(b.m) = 0 THEN a
    ELSE RoundNat(NatAdd(Aligned(a, b).a, Aligned(a, b).b), Aligned(a, b).e, FALSE)
\* a - b, for a >= b
FSub(a, b) ==
    IF Len(b.m) = 0 THEN a
    ELSE RoundNat(NatSub(Aligned(a, b).a, Aligned(a, b).b), Aligned(a, b).e, FALSE)
\* One step of restoring division by b: the remainder and the quotient
\* doubled, and b taken from the remainder where it fits.
DivStep(b, s) ==
    CHOOSE v \in
        {IF NatLess(twice, b) THEN [rem |-> twice, quot |-> double]
         ELSE [rem |-> NatSub(twice, b), quot |-> NatAdd(double, <<1>>)] :
             twice \in {NatAdd(s.rem, s.rem)}, double \in {NatAdd(s.quot, s.quot)}} : TRUE
\* i steps from s, s.rem < b: the first half of the steps, then the rest.
\* (The set comprehension binds half to a value.)
RECURSIVE DivLoop(_, _, _)
DivLoop(b, i, s) ==
    IF i = 0 THEN s
    ELSE IF i = 1 THEN DivStep(b, s)
    ELSE CHOOSE v \in
             {DivLoop(b, i - i \div 2, half) : half \in {DivLoop(b, i \div 2, s)}} : TRUE
\* a / b: the quotient of a.m * 2^(Precision + 3) by b.m has at least
\* Precision + 3 bits
FDiv(a, b) ==
    CHOOSE v \in
        {RoundNat(d.quot, a.e - b.e - (Precision + 3), Len(d.rem) # 0) :
            d \in {IF NatLess(a.m, b.m)
                   THEN DivLoop(b.m, Precision + 3, [rem |-> a.m, quot |-> <<>>])
                   ELSE DivLoop(b.m, Precision + 3,
                                [rem |-> NatSub(a.m, b.m), quot |-> <<1>>])}} : TRUE
\* a < b
FLess(a, b) ==
    IF Len(b.m) = 0 THEN FALSE
    ELSE IF Len(a.m) = 0 THEN TRUE
    ELSE NatLess(Aligned(a, b).a, Aligned(a, b).b)

-----------------------------------------------------------------------------
(* SeeingModel.fwhmEff_to_fwhmGeom and SeeingModel.fwhmGeom_to_fwhmEff on  *)
(* floats                                                                  *)

MaxCenti == 60

\* The float a decimal literal denotes: 0.822 is 822 / 1000 rounded once.
Centi(c) == FDiv(FloatOf(c), FloatOf(100))
Milli(c) == FDiv(FloatOf(c), FloatOf(1000))
\* The FWHM values converted: 0.00, 0.01, ... arcsec, and the 1.23 of
\* test_fwhmGeomEff.
FwhmValues == {Centi(c) : c \in 0 .. MaxCenti} \cup {Centi(123)}

\* return (0.822 * fwhm_eff + 0.052), of one float.  (The set comprehension
\* binds product to the value of 0.822 * fwhm_eff.)
fwhmEff_to_fwhmGeom_float(fwhm_eff) ==
    CHOOSE v \in {FAdd(product, Milli(52)) :
                     product \in {FMul(Milli(822), fwhm_eff)}} : TRUE

\* (first, the division done before the subtraction:
\*  fwhm_geom / 0.822 - 0.052)
fwhmGeom_to_fwhmEff_DividesFirst(fwhm_geom) ==
    CHOOSE v \in {FSub(quotient, Milli(52)) :
                     quotient \in {FDiv(fwhm_geom, Milli(822))}} : TRUE
\* return (fwhm_geom - 0.052)/0.822
fwhmGeom_to_fwhmEff(fwhm_geom) ==
    CHOOSE v \in {FDiv(difference, Milli(822)) :
                     difference \in {FSub(fwhm_geom, Milli(52))}} : TRUE

\* The two static methods, called on the class: no SeeingModel is needed.
SeeingModel_fwhmEff_to_fwhmGeom(fwhm_eff) ==
    /\ result' = Outcome("fwhmEff_to_fwhmGeom", [fwhm_eff |-> fwhm_eff], "none",
                         <<fwhmEff_to_fwhmGeom_float(fwhm_eff)>>)
    /\ UNCHANGED <<dataVars, envVars, sim, modelVars>>
SeeingModel_fwhmGeom_to_fwhmEff(fwhm_geom) ==
    /\ result' = Outcome("fwhmGeom_to_fwhmEff", [fwhm_geom |-> fwhm_geom], "none",
                         <<fwhmGeom_to_fwhmEff(fwhm_geom)>>)
    /\ UNCHANGED <<dataVars, envVars, sim, modelVars>>

\* Nothing is called yet; the value to convert stands in args.
InitAffine ==
    /\ SeeingData_init(<<>>, 0)
    /\ no_photUtils = TRUE
    /\ fdir = FALSE
    /\ NoSim
    /\ \E fwhm_eff \in FwhmValues :
           result = Outcome("none", [fwhm_eff |-> fwhm_eff], "none", <<>>)

\* fwhmEff_to_fwhmGeom of the value, then fwhmGeom_to_fwhmEff of what it
\* returned.
NextAffine ==
    \/ /\ result.op = "none"
       /\ SeeingModel_fwhmEff_to_fwhmGeom(result.args.fwhm_eff)
    \/ /\ result.op = "fwhmEff_to_fwhmGeom"
       /\ SeeingModel_fwhmGeom_to_fwhmEff(result.ret[1])

SpecAffine == InitAffine /\ [][NextAffine]_vars

-----------------------------------------------------------------------------
(* Vocabulary of the properties. *)

Abs(x) == IF x < 0 THEN -x ELSE x
IsCall == result.op = "__call__"
IsRead == result.op = "read_data"
\* constructed, read_data not called yet
NotLoaded == nones = {"seeing_dates", "seeing_values"}
\* read_data has completed
Loaded == "time_range" \in attrs
\* query_time = ((delta_time + offset) mod time_range) + min_time
QueryTime(delta_time) == ((delta_time + offset) % time_range) + min_time
\* the number of samples before query_time: the insertion index
InsertionIndex(q) == Cardinality({i \in 1 .. Len(seeing_dates) : seeing_dates[i] < q})
\* a wavelength, as written, that is greater than zero
IsPositive(wavelength) == wavelength \notin {"0", "-500", "0.0", "-1.0"}
\* samples i and i + 1 (counted from 1) bracket q
Brackets(i, q) == seeing_dates[i] < q /\ q <= seeing_dates[i + 1]

-----------------------------------------------------------------------------
(* C1: for a loaded series of at least two samples with time_range > 0,    *)
(* every lookup returns the value of a sample whose elapsed time is        *)
(* nearest to query_time among all samples; when query_time = min_time     *)
(* that is a sample at distance 0.                                         *)
C1_NearestSample ==
    (IsCall /\ Loaded /\ Len(seeing_dates) >= 2 /\ time_range > 0) =>
        LET q == QueryTime(result.args.delta_time)
        IN /\ result.exc = "none"
           /\ Len(result.ret) = 1
           /\ \E i \in 1 .. Len(seeing_dates) :
                  /\ seeing_values[i] = result.ret[1]
                  /\ \A j \in 1 .. Len(seeing_dates) :
                         Abs(seeing_dates[i] - q) <= Abs(seeing_dates[j] - q)

(* C2 as stated: a query_time exactly midway between the two adjacent      *)
(* samples that bracket it returns the value of the earlier (left) one;    *)
(* on the series {9997: 0.5, 10342: 0.3} the midpoint 10169.5 returns 0.5. *)
C2_TieReturnsLeft ==
    (IsCall /\ Loaded /\ time_range > 0) =>
        LET q == QueryTime(result.args.delta_time)
        IN \A i \in 1 .. Len(seeing_dates) - 1 :
               (Brackets(i, q) /\ q - seeing_dates[i] = seeing_dates[i + 1] - q)
                   => result.ret = <<seeing_values[i]>>

(* C2 as amended: a query_time exactly midway between the two adjacent     *)
(* samples that bracket it returns the value of the later (right) one; on  *)
(* the series {9997: 0.5, 10342: 0.3} the midpoint 10169.5 returns 0.3.    *)
C2_TieReturnsRight ==
    (IsCall /\ Loaded /\ time_range > 0) =>
        LET q == QueryTime(result.args.delta_time)
        IN /\ \A i \in 1 .. Len(seeing_dates) - 1 :
                  (Brackets(i, q) /\ q - seeing_dates[i] = seeing_dates[i + 1] - q)
                      => result.ret = <<seeing_values[i + 1]>>
           /\ (source = AltDb /\ q = 20339) => result.ret = <<"0.3">>

\* a lookup of the midpoint 10169.5 (20339 half-seconds) of the two-sample series
C2_Witness ==
    /\ IsCall /\ Loaded /\ source = AltDb
    /\ QueryTime(result.args.delta_time) = 20339
    /\ result.exc = "none"

(* C3: with idx the insertion index of query_time, left = elapsed[idx-1]   *)
(* and right = elapsed[idx] (Python indexing), a lookup returns            *)
(* values[idx-1] when query_time - left < right - query_time, strictly,    *)
(* and values[idx] otherwise; on {9997: 0.5, 10342: 0.3} a query_time of   *)
(* 10169 returns 0.5 and one of 10170 returns 0.3.                         *)
C3_LeftIffStrictlyCloser ==
    (IsCall /\ Loaded /\ time_range > 0) =>
        LET q == QueryTime(result.args.delta_time)
            idx == InsertionIndex(q)
            left == PyIndex(seeing_dates, idx - 1)
            right == PyIndex(seeing_dates, idx)
        IN /\ result.exc = "none"
           /\ (q - left < right - q)
                  => result.ret = <<PyIndex(seeing_values, idx - 1)>>
           /\ ~(q - left < right - q)
                  => result.ret = <<PyIndex(seeing_values, idx)>>
           /\ (source = AltDb /\ q = Tick(10169)) => result.ret = <<"0.5">>
           /\ (source = AltDb /\ q = Tick(10170)) => result.ret = <<"0.3">>

\* a lookup of 10169 on the two-sample series: the left sample is strictly closer
C3_Witness ==
    /\ IsCall /\ Loaded /\ source = AltDb
    /\ QueryTime(result.args.delta_time) = Tick(10169)
    /\ result.ret = <<"0.5">>

(* C4: periodicity.  For a loaded series with time_range > 0, a lookup at  *)
(* t and a lookup at t + k * time_range have the same outcome, for every   *)
(* integer k (here -MaxK .. MaxK) and every calendar offset.               *)
C4_Periodic ==
    (IsCall /\ Loaded /\ time_range > 0) =>
        \A k \in -MaxK .. MaxK :
            Lookup(result.args.delta_time + k * time_range)
                = [exc |-> result.exc, ret |-> result.ret]

\* a lookup whose adjusted time lies beyond the recorded span and is folded back
C4_Witness ==
    /\ IsCall /\ Loaded /\ time_range > 0
    /\ result.args.delta_time + offset >= time_range
    /\ result.exc = "none"
    /\ Len(seeing_dates) >= 2
    /\ seeing_values[1] # seeing_values[Len(seeing_values)]

(* C5: a lookup on an instance that is constructed but not loaded fails    *)
(* with NotReadyError and returns no value; the instance stays             *)
(* constructed-but-not-loaded.                                             *)
C5_LookupBeforeLoad ==
    (IsCall /\ NotLoaded) =>
        /\ result.exc = "NotReadyError"
        /\ result.ret = <<>>
        /\ ~Loaded

(* C6: read_data on a source of zero rows fails with DataError and         *)
(* installs no series, min_time, max_time or time_range.                   *)
C6_EmptySourceRejected ==
    (IsRead /\ Len(source) = 0) =>
        /\ result.exc = "DataError"
        /\ NotLoaded
        /\ ~Loaded

(* C7: after loading a source of exactly one row, every lookup returns     *)
(* that row's value and raises nothing.                                    *)
C7_SingleSample ==
    (Len(source) = 1) =>
        /\ IsRead => result.exc = "none"
        /\ (IsCall /\ Loaded) =>
               (result.exc = "none" /\ result.ret = <<source[1][2]>>)

(* C8: read_data rejects with DataError a source with a row whose seeing   *)
(* value is not finite; after a successful load every stored value is      *)
(* finite.                                                                 *)
C8_NonFiniteRejected ==
    /\ (IsRead /\ \E i \in 1 .. Len(source) : ~IsFinite(source[i][2]))
           => result.exc = "DataError"
    /\ Loaded => \A i \in 1 .. Len(seeing_values) : IsFinite(seeing_values[i])

(* C9: calculate_seeing with a filter_name that is not in filter_list      *)
(* fails with a LookupError and returns nothing; with a filter_name that   *)
(* is in the list it does not raise that error.                            *)
C9_UnknownFilterLookupError ==
    (result.op = "calculate_seeing") =>
        IF Contains(filter_list, result.args.filter_name)
        THEN result.exc # "LookupError"
        ELSE result.exc = "LookupError" /\ result.ret = <<>>

\* The element of a result for filter f (counted from 1) and airmass X.
IsFwhm(cell, q, f, X) ==
    /\ cell.q = q
    /\ cell.fwhm_500 = result.args.fwhm_500
    /\ cell.wavelen = filter_effwavelens[f]
    /\ cell.airmass = X
\* The shape contract of a seeing_at_airmass call whose airmass is of one
\* of the sequence types: a float gives (F,) in filter order, a sequence of
\* length N an F x N grid indexed [filter][airmass], fwhm_eff and fwhm_geom
\* alike.
ShapeContract(sequenceTypes) ==
    LET F == Len(filter_effwavelens)
        airmass == result.args.airmass
        N == Len(airmass.v)
    IN /\ F = Len(filter_list)
       /\ airmass.type = "float" =>
              /\ result.exc = "none"
              /\ result.ret[1].shape = <<F>>
              /\ Len(result.ret[1].fwhm_eff) = F
              /\ Len(result.ret[1].fwhm_geom) = F
              /\ \A f \in 1 .. F :
                     /\ IsFwhm(result.ret[1].fwhm_eff[f], "fwhm_eff", f, airmass.v[1])
                     /\ IsFwhm(result.ret[1].fwhm_geom[f], "fwhm_geom", f, airmass.v[1])
       /\ airmass.type \in sequenceTypes =>
              /\ result.exc = "none"
              /\ result.ret[1].shape = <<F, N>>
              /\ Len(result.ret[1].fwhm_eff) = F
              /\ Len(result.ret[1].fwhm_geom) = F
              /\ \A f \in 1 .. F :
                     /\ Len(result.ret[1].fwhm_eff[f]) = N
                     /\ Len(result.ret[1].fwhm_geom[f]) = N
                     /\ \A a \in 1 .. N :
                            /\ IsFwhm(result.ret[1].fwhm_eff[f][a], "fwhm_eff", f, airmass.v[a])
                            /\ IsFwhm(result.ret[1].fwhm_geom[f][a], "fwhm_geom", f, airmass.v[a])

(* C10 as stated: seeing_at_airmass gives, for a scalar airmass, fwhm_eff  *)
(* and fwhm_geom of shape (F,) in filter order, and for an airmass that is *)
(* any ordered sequence of length N (a numpy.ndarray or a plain sequence)  *)
(* an F x N grid indexed [filter][airmass]; both have the same shape.      *)
C10_ShapeAnySequence ==
    (result.op = "seeing_at_airmass") => ShapeContract({"ndarray", "list"})

(* C10 as amended: the same, for an airmass that is a float or a           *)
(* numpy.ndarray of length N >= 1 (N = F included).                        *)
C10_ShapeNdarray ==
    (result.op = "seeing_at_airmass") => ShapeContract({"ndarray"})

\* a call with as many airmasses as filters, more than one, in an ndarray
C10_Witness ==
    /\ result.op = "seeing_at_airmass"
    /\ result.args.airmass.type = "ndarray"
    /\ Len(result.args.airmass.v) = Len(filter_effwavelens)
    /\ Len(filter_effwavelens) >= 2
    /\ result.exc = "none"
    /\ result.ret[1].shape = <<Len(filter_effwavelens), Len(filter_effwavelens)>>


-----------------------------------------------------------------------------
(* C11: on a successfully constructed SeeingSim, get_fwhm500(delta_time)   *)
(* succeeds and returns exactly the value the lookup returns for           *)
(* delta_time; get_seeing(delta_time, airmass) with a float or ndarray     *)
(* airmass succeeds and returns (fwhm_500, fwhm_geom, fwhm_eff) with       *)
(* fwhm_500 that lookup value and (fwhm_eff, fwhm_geom) the result of      *)
(* seeing_at_airmass(fwhm_500, airmass).                                   *)
C11_GetSeeingSucceeds ==
    /\ (sim = "ok" /\ result.op = "get_fwhm500") =>
           /\ result.exc = "none"
           /\ result.ret = Lookup(result.args.delta_time).ret
    /\ (sim = "ok" /\ result.op = "get_seeing"
            /\ result.args.airmass.type \in {"float", "ndarray"}) =>
           /\ result.exc = "none"
           /\ Len(result.ret) = 3
           /\ <<result.ret[1]>> = Lookup(result.args.delta_time).ret
           /\ LET seeing == seeing_at_airmass(result.ret[1], result.args.airmass)
              IN /\ seeing.exc = "none"
                 /\ result.ret[2] = seeing.fwhm_geom
                 /\ result.ret[3] = seeing.fwhm_eff

-----------------------------------------------------------------------------
(* C12: SeeingSim(filter_effwavelens given, filter_list None) raises       *)
(* ValueError; both given with different lengths raises ValueError; every  *)
(* successfully constructed SeeingSim has len(filter_list) ==              *)
(* len(seeing_model.filter_effwavelens) and, when filter_list was          *)
(* supplied, filter_list equals the supplied list.                         *)
IsNew == result.op = "SeeingSim"
WavelensGiven == ~result.args.filter_effwavelens.none
FiltersGiven == ~result.args.filter_list.none
LengthsDiffer ==
    Len(result.args.filter_list.a) # Len(result.args.filter_effwavelens.a)
C12_SuppliedListKept ==
    /\ sim = "ok" => Len(filter_list) = Len(filter_effwavelens)
    /\ IsNew =>
           /\ (WavelensGiven /\ ~FiltersGiven) => result.exc = "ValueError"
           /\ (WavelensGiven /\ FiltersGiven /\ LengthsDiffer) =>
                  result.exc = "ValueError"
           /\ (result.exc = "none" /\ FiltersGiven) =>
                  filter_list = result.args.filter_list.a

(* C12, amended: with filter_effwavelens given, a filter_list that is None *)
(* or of another length makes the construction fail, with ValueError once  *)
(* the seeing_db has been read; every successfully constructed SeeingSim   *)
(* has len(filter_list) == len(seeing_model.filter_effwavelens); its       *)
(* filter_list is the supplied list when filter_effwavelens was given and  *)
(* ('u','g','r','i','z','y') when it was not, whatever list was supplied.  *)
C12_ListKeptWithWavelens ==
    /\ sim = "ok" => Len(filter_list) = Len(filter_effwavelens)
    /\ IsNew =>
           /\ (WavelensGiven /\ (~FiltersGiven \/ LengthsDiffer)) =>
                  /\ result.exc # "none"
                  /\ Len(source) >= 1 => result.exc = "ValueError"
           /\ (result.exc = "none" /\ WavelensGiven) =>
                  FiltersGiven /\ filter_list = result.args.filter_list.a
           /\ (result.exc = "none" /\ ~WavelensGiven) =>
                  filter_list = DefaultFilterList
\* constructed with a filter_list but no filter_effwavelens: the list is dropped
C12_Witness ==
    /\ IsNew /\ result.exc = "none" /\ sim = "ok"
    /\ ~WavelensGiven /\ FiltersGiven
    /\ filter_list # result.args.filter_list.a

-----------------------------------------------------------------------------
(* C13: constructing a SeeingModel with raw_seeing_wavelength <= 0 or with *)
(* any filter effective wavelength <= 0 fails with ConfigError, so no      *)
(* constructed model holds a non-positive wavelength.                      *)
C13_NonPositiveRejected ==
    /\ (result.op = "SeeingModel"
            /\ \/ ~IsPositive(result.args.raw_seeing_wavelength)
               \/ \E k \in 1 .. Len(result.args.filter_effwavelens.a) :
                      ~IsPositive(result.args.filter_effwavelens.a[k])) =>
           result.exc = "ConfigError"
    /\ sim = "model" =>
           /\ IsPositive(raw_seeing_wavelength)
           /\ \A k \in 1 .. Len(filter_effwavelens) : IsPositive(filter_effwavelens[k])

-----------------------------------------------------------------------------
(* C14: without sims_photUtils or $LSST_THROUGHPUTS_DEFAULT,               *)
(* get_effwavelens(filter_list) returns, for every list of different       *)
(* filters among u, g, r, i, z, y in any order, a list of the same length  *)
(* whose i-th entry is the default wavelength of the filter                *)
(* filter_list[i], not the i-th default wavelength.                        *)
IsGetEffwavelens ==
    result.op \in {"utils.get_effwavelens", "seeingModelConfig.get_effwavelens"}
\* the effwavelens returned: the last element of what is returned
ReturnedEffwavelens == result.ret[Len(result.ret)]
C14_DefaultWavelengthByName ==
    (IsGetEffwavelens /\ (no_photUtils \/ ~fdir)) =>
        /\ result.exc = "none"
        /\ Len(result.ret) >= 1
        /\ Len(ReturnedEffwavelens) = Len(result.args.filter_list)
        /\ \A k \in 1 .. Len(result.args.filter_list) :
               \A d \in 1 .. Len(DEFAULT_FILTER_LIST) :
                   DEFAULT_FILTER_LIST[d] = result.args.filter_list[k] =>
                       ReturnedEffwavelens[k] = DEFAULT_WAVELENGTHS[d]

-----------------------------------------------------------------------------
(* C17: after a successful read_data of a non-empty table, its rows in any *)
(* order and elapsed times possibly repeated: seeing_dates is              *)
(* non-decreasing, the (seeing_dates[i], seeing_values[i]) pairs are the   *)
(* rows of the table with their multiplicities, min_time is                *)
(* seeing_dates[0], max_time is seeing_dates[-1] and time_range is         *)
(* max_time - min_time.                                                    *)
LoadedPair(i) == <<seeing_dates[i], seeing_values[i]>>
SourcePair(j) == <<Tick(source[j][1]), source[j][2]>>
C17_LoadSortsRows ==
    (IsRead /\ result.exc = "none" /\ Len(source) >= 1) =>
        /\ Len(seeing_dates) = Len(source)
        /\ Len(seeing_values) = Len(source)
        /\ \A i \in 1 .. Len(seeing_dates) - 1 : seeing_dates[i] <= seeing_dates[i + 1]
        /\ \A j \in 1 .. Len(source) :
               Cardinality({i \in 1 .. Len(seeing_dates) : LoadedPair(i) = SourcePair(j)})
                   = Cardinality({k \in 1 .. Len(source) : SourcePair(k) = SourcePair(j)})
        /\ min_time = PyIndex(seeing_dates, 0)
        /\ max_time = PyIndex(seeing_dates, -1)
        /\ time_range = max_time - min_time
\* three rows read, out of order in the table, two of them at the same time
\* with different values
C17_Witness ==
    /\ IsRead /\ result.exc = "none" /\ Len(source) = 3
    /\ source[1][1] > source[2][1]
    /\ source[2][1] = source[3][1] /\ source[2][2] # source[3][2]
    /\ time_range > 0

-----------------------------------------------------------------------------
(* C18: for a loaded series of at least two samples with time_range > 0    *)
(* and every delta_time, the folded query_time lies in                     *)
(* [min_time, max_time] and the insertion index idx the lookup gets from   *)
(* searchsorted lies in [1, len - 1], so that seeing_dates[idx - 1] and    *)
(* seeing_dates[idx] are adjacent samples bracketing query_time: idx is    *)
(* never 0 and seeing_dates[idx - 1] is never the last sample.             *)
C18_IdxBrackets ==
    (IsCall /\ Loaded /\ Len(seeing_dates) >= 2 /\ time_range > 0) =>
        LET date == FoldDate(result.args.delta_time)
            idx == searchsorted(seeing_dates, date)
        IN /\ ~date.nan
           /\ min_time <= date.t /\ date.t <= max_time
           /\ 1 <= idx /\ idx <= Len(seeing_dates) - 1
           /\ PyIndex(seeing_dates, idx - 1) <= date.t
           /\ date.t <= PyIndex(seeing_dates, idx)

-----------------------------------------------------------------------------
(* C19: on a constructed and loaded SeeingSim no lookup, get_fwhm500,      *)
(* get_seeing, calculate_seeing or seeing_at_airmass call changes the      *)
(* stored state (the series, min_time, max_time, time_range, the offset,   *)
(* filter_list, filter_effwavelens, raw_seeing_wavelength,                 *)
(* fwhm_system_zenith), and what a call raised and returned is what the    *)
(* same call with the same arguments raises and returns right after it.    *)
IsQuery ==
    result.op \in {"__call__", "get_fwhm500", "get_seeing",
                   "calculate_seeing", "seeing_at_airmass"}
\* the call recorded in result, made again in the present state
Again ==
    CASE result.op = "__call__" -> Lookup(result.args.delta_time)
      [] result.op = "get_fwhm500" -> get_fwhm500(result.args.delta_time)
      [] result.op = "get_seeing" ->
             get_seeing(result.args.delta_time, result.args.airmass)
      [] result.op = "calculate_seeing" ->
             calculate_seeing(result.args.delta_time, result.args.filter_name,
                              result.args.airmass)
      [] result.op = "seeing_at_airmass" ->
             LET seeing == seeing_at_airmass(result.args.fwhm_500, result.args.airmass)
             IN [exc |-> seeing.exc,
                 ret |-> IF seeing.exc = "none"
                         THEN <<[shape |-> seeing.shape,
                                 fwhm_eff |-> seeing.fwhm_eff,
                                 fwhm_geom |-> seeing.fwhm_geom]>>
                         ELSE <<>>]
C19_CallsChangeNothing ==
    /\ [][(sim = "ok" /\ IsQuery') => UNCHANGED <<dataVars, modelVars, sim>>]_vars
    /\ []((sim = "ok" /\ IsQuery) =>
              (result.exc = Again.exc /\ result.ret = Again.ret))
\* a call that returned, on a series whose offset is not zero, right after
\* another call
C19_Witness ==
    /\ sim = "ok" /\ result.op = "get_seeing" /\ result.exc = "none"
    /\ offset # 0 /\ result.args.delta_time # 0

-----------------------------------------------------------------------------
(* C20: for every delta_time, every airmass that is a float or an ndarray  *)
(* of length N and every filter_name in filter_list,                       *)
(* calculate_seeing(delta_time, filter_name, airmass) raises what          *)
(* get_seeing(delta_time, airmass) raises and otherwise returns its        *)
(* fwhm_500 with its fwhm_geom and fwhm_eff taken at the first position of *)
(* filter_name in filter_list: one value for a float airmass, a sequence   *)
(* of N values, one per airmass, for an ndarray.                           *)
IsFirst(k, name) ==
    /\ k \in 1 .. Len(filter_list)
    /\ filter_list[k] = name
    /\ \A j \in 1 .. k - 1 : filter_list[j] # name
\* the value for the filter at position k and airmass X, computed from the
\* fwhm_500 returned
IsSeeingOf(cell, q, k, X) ==
    /\ cell.q = q
    /\ cell.fwhm_500 = result.ret[1]
    /\ cell.wavelen = filter_effwavelens[k]
    /\ cell.airmass = X
C20_OneFilterOfGetSeeing ==
    (sim = "ok" /\ result.op = "calculate_seeing"
        /\ result.args.airmass.type \in {"float", "ndarray"}
        /\ Contains(filter_list, result.args.filter_name)) =>
        LET all == get_seeing(result.args.delta_time, result.args.airmass)
            X == result.args.airmass.v
        IN /\ result.exc = all.exc
           /\ all.exc = "none" =>
                  /\ Len(result.ret) = 3
                  /\ result.ret[1] = all.ret[1]
                  /\ \A k \in 1 .. Len(filter_list) :
                         IsFirst(k, result.args.filter_name) =>
                             /\ result.ret[2] = all.ret[2][k]
                             /\ result.ret[3] = all.ret[3][k]
                             /\ IF result.args.airmass.type = "float"
                                THEN /\ IsSeeingOf(result.ret[2], "fwhm_geom", k, X[1])
                                     /\ IsSeeingOf(result.ret[3], "fwhm_eff", k, X[1])
                                ELSE /\ Len(result.ret[2]) = Len(X)
                                     /\ Len(result.ret[3]) = Len(X)
                                     /\ \A a \in 1 .. Len(X) :
                                            /\ IsSeeingOf(result.ret[2][a], "fwhm_geom", k, X[a])
                                            /\ IsSeeingOf(result.ret[3][a], "fwhm_eff", k, X[a])
\* a filter named twice in filter_list, asked for with an ndarray of
\* several airmasses
C20_Witness ==
    /\ sim = "ok" /\ result.op = "calculate_seeing" /\ result.exc = "none"
    /\ result.args.airmass.type = "ndarray" /\ Len(result.args.airmass.v) >= 2
    /\ result.args.filter_name = "g"
    /\ filter_list = <<"g", "g">>
    /\ filter_effwavelens[1] # filter_effwavelens[2]

-----------------------------------------------------------------------------
(* C15: for every finite x, fwhmGeom_to_fwhmEff(fwhmEff_to_fwhmGeom(x)) is *)
(* x itself and fwhmEff_to_fwhmGeom(x) is 0.822 * x + 0.052; the two       *)
(* static functions read and change no model state.                        *)
IsEffToGeom == result.op = "fwhmEff_to_fwhmGeom"
\* 0.822 * x + 0.052, each operation rounded
Affine(x) ==
    CHOOSE v \in {FAdd(product, Milli(52)) : product \in {FMul(Milli(822), x)}} : TRUE
\* the conversions change nothing but result, and are made without a model
StaticAndPure == sim = "none" /\ UNCHANGED <<dataVars, envVars, sim, modelVars>>
C15_RoundTripExact ==
    /\ [](IsEffToGeom => result.ret[1] = Affine(result.args.fwhm_eff))
    /\ [][(IsEffToGeom /\ result'.op = "fwhmGeom_to_fwhmEff") =>
              /\ result'.args.fwhm_geom = result.ret[1]
              /\ result'.ret[1] = result.args.fwhm_eff
              /\ StaticAndPure]_vars

(* C15, amended: for every x of 0.00, 0.01, ..., and 1.23,                 *)
(* fwhmGeom_to_fwhmEff(fwhmEff_to_fwhmGeom(x)) differs from x by at most   *)
(* 2^-52 (it is not always x itself), fwhmEff_to_fwhmGeom(x) is the float  *)
(* 0.822 * x + 0.052, and the two static functions read and change no      *)
(* model state.                                                            *)
\* |a - b| <= 2^-52
Close(a, b) ==
    LET d == IF FLess(a, b) THEN NatSub(Aligned(a, b).b, Aligned(a, b).a)
             ELSE NatSub(Aligned(a, b).a, Aligned(a, b).b)
        e == Aligned(a, b).e
    IN IF e <= -52 THEN ~NatLess(ShiftLeft(<<1>>, -52 - e), d)
       ELSE ~NatLess(<<1>>, ShiftLeft(d, e + 52))
C15_RoundTripWithinTolerance ==
    /\ [](IsEffToGeom => result.ret[1] = Affine(result.args.fwhm_eff))
    /\ [][(IsEffToGeom /\ result'.op = "fwhmGeom_to_fwhmEff") =>
              /\ result'.args.fwhm_geom = result.ret[1]
              /\ Close(result'.ret[1], result.args.fwhm_eff)
              /\ StaticAndPure]_vars
\* 0.01 converted and converted back: the value returned is not 0.01
C15_Witness ==
    /\ result.op = "fwhmGeom_to_fwhmEff"
    /\ result.args.fwhm_geom = Affine(Centi(1))
    /\ result.ret[1] # Centi(1)
    /\ sim = "none"

=============================================================================
